---- MODULE Spec2Model ----
(***************************************************************************)
(* Union data layer (accounts, servers, membership, invites, messages and  *)
(* Basic authentication), modelled from the database module of the         *)
(* repository.  Strings are sequences of character codes, tables are       *)
(* functions from primary key to document.                                 *)
(***************************************************************************)
EXTENDS Integers, Sequences, FiniteSets, TLC

(***************************************************************************)
(* Bounds of the model.                                                    *)
(***************************************************************************)
\* number of discriminators of the namespace (9999 in the code)
MaxDiscrim == 2
\* number of ids idGenerator hands out
MaxAccounts == 2
\* largest server id createServer assigns
MaxServerId == 2
\* the largest server id given out while calls are in flight together
MaxRaceId == 1

(***************************************************************************)
(* JavaScript values.                                                      *)
(***************************************************************************)
\* character codes
Space == 32
HashCh == 35
Colon == 58
Zero == 48
PadCh == 61
\* width of a discriminator
DiscrimWidth == 4

\* undefined and null, as values no string equals
Undefined == <<-1>>
Null == <<-2>>

\* !x for a string-or-undefined-or-null value
Falsy(x) == x = Undefined \/ x = Null \/ x = <<>>

\* the i-th element of a destructured array, undefined past its end
Nth(parts, i) == IF i <= Len(parts) THEN parts[i] ELSE Undefined

RECURSIVE SplitAcc(_, _, _, _)
SplitAcc(s, c, i, cur) ==
  IF i > Len(s) THEN <<cur>>
  ELSE IF s[i] = c THEN <<cur>> \o SplitAcc(s, c, i + 1, <<>>)
  ELSE SplitAcc(s, c, i + 1, Append(cur, s[i]))

\* String.prototype.split on a one-character separator, without limit
Split(s, c) == SplitAcc(s, c, 1, <<>>)

RECURSIVE Digits(_)
\* Number.prototype.toString of a positive integer
Digits(n) == IF n < 10 THEN <<Zero + n>> ELSE Append(Digits(n \div 10), Zero + (n % 10))

\* a padStart that pads nothing
PadStartNone(s, w, c) == s

RECURSIVE PadStart(_, _, _)
\* String.prototype.padStart
PadStart(s, w, c) == IF Len(s) >= w THEN s ELSE PadStart(<<c>> \o s, w, c)

(***************************************************************************)
(* Base64.                                                                 *)
(***************************************************************************)
\* the character of a 6-bit value in the base64 alphabet
B64Char(v) ==
  IF v < 26 THEN 65 + v
  ELSE IF v < 52 THEN 97 + (v - 26)
  ELSE IF v < 62 THEN 48 + (v - 52)
  ELSE IF v = 62 THEN 43 ELSE 47

\* the 6-bit value of a character, 64 for a character outside the alphabet
\* (the decoder also reads the URL-safe '-' and '_')
B64Value(c) ==
  IF c >= 65 /\ c <= 90 THEN c - 65
  ELSE IF c >= 97 /\ c <= 122 THEN c - 97 + 26
  ELSE IF c >= 48 /\ c <= 57 THEN c - 48 + 52
  ELSE IF c = 43 \/ c = 45 THEN 62
  ELSE IF c = 47 \/ c = 95 THEN 63
  ELSE 64

RECURSIVE Base64Encode(_)
\* what a client sends: the base64 text of a byte string, padded with '='
Base64Encode(b) ==
  IF Len(b) = 0 THEN <<>>
  ELSE IF Len(b) = 1 THEN
    <<B64Char(b[1] \div 4), B64Char((b[1] % 4) * 16), PadCh, PadCh>>
  ELSE IF Len(b) = 2 THEN
    <<B64Char(b[1] \div 4), B64Char((b[1] % 4) * 16 + b[2] \div 16),
      B64Char((b[2] % 16) * 4), PadCh>>
  ELSE
    <<B64Char(b[1] \div 4), B64Char((b[1] % 4) * 16 + b[2] \div 16),
      B64Char((b[2] % 16) * 4 + b[3] \div 64), B64Char(b[3] % 64)>>
      \o Base64Encode(SubSeq(b, 4, Len(b)))

RECURSIVE B64Sextets(_, _)
\* the 6-bit values of the text up to the first '=', other characters skipped
B64Sextets(s, i) ==
  IF i > Len(s) \/ s[i] = PadCh THEN <<>>
  ELSE IF B64Value(s[i]) = 64 THEN B64Sextets(s, i + 1)
  ELSE <<B64Value(s[i])>> \o B64Sextets(s, i + 1)

RECURSIVE B64Bytes(_)
B64Bytes(v) ==
  IF Len(v) < 2 THEN <<>>
  ELSE IF Len(v) = 2 THEN <<v[1] * 4 + v[2] \div 16>>
  ELSE IF Len(v) = 3 THEN <<v[1] * 4 + v[2] \div 16, (v[2] % 16) * 16 + v[3] \div 4>>
  ELSE <<v[1] * 4 + v[2] \div 16, (v[2] % 16) * 16 + v[3] \div 4, (v[3] % 4) * 64 + v[4]>>
         \o B64Bytes(SubSeq(v, 5, Len(v)))

\* Buffer.from(creds, 'base64').toString() (the text is ASCII)
Base64Decode(s) == B64Bytes(B64Sextets(s, 1))

(***************************************************************************)
(* Input domains.                                                          *)
(***************************************************************************)
\* "a", "b"
Usernames == {<<97>>, <<98>>}

AccountIds == 1..MaxAccounts
ServerIds == 1..MaxServerId
\* the codes shortId gives, each of them once
InviteCodes == {1}
\* the message ids the callers use
MessageIds == {1}

\* Math.floor(Math.random() * 9999 + 1).toString().padStart(4, '0')
Discriminators == {PadStart(Digits(n), DiscrimWidth, Zero) : n \in 1..MaxDiscrim}

(***************************************************************************)
(* State: the four tables, the two id sources, the last completed call,    *)
(* the calls in flight and the ids of the accounts created so far.         *)
(***************************************************************************)
VARIABLES users, servers, invites, messages, flake, codes, ret, calls, born

tables == <<users, servers, invites, messages>>

\* the callers whose calls can be in flight at the same time: the two
\* registered accounts, each awaiting its call before it makes the next
Procs == {1, 2}

\* a caller with no call in flight
Idle == [pc |-> "idle", op |-> "none"]

\* a key without a document (get returns null)
Absent == [absent |-> TRUE]

\* bcrypt: hash(password, 10) and compare(password, hash)
Hash(p) == [bcrypt |-> p]
Compare(p, h) == h.bcrypt = p

\* `${username}#${discriminator}`
Tag(username, discriminator) == username \o <<HashCh>> \o discriminator

\* ids of the documents of a table
Keys(tbl) == {k \in DOMAIN tbl : tbl[k] # Absent}

\* Array.prototype.includes / contains
Includes(list, x) == \E i \in 1..Len(list) : list[i] = x

\* r.row('servers').difference([x])
Difference(list, x) == SelectSeq(list, LAMBDA y : y # x)

\* insert: a document whose primary key is taken is not written
Insert(tbl, doc) ==
  IF doc.id \in DOMAIN tbl /\ tbl[doc.id] = Absent THEN [tbl EXCEPT ![doc.id] = doc] ELSE tbl

\* get(id).delete()
Delete(tbl, id) == IF id \in DOMAIN tbl THEN [tbl EXCEPT ![id] = Absent] ELSE tbl

\* r.table('users').filter({ username, discriminator })
UsersTagged(tbl, username, discriminator) ==
  {k \in Keys(tbl) : tbl[k].username = username /\ tbl[k].discriminator = discriminator}

\* idGenerator.gen(): the id after the last one given out (flakeid is not
\* part of the source; an id that grows with every call is what the
\* specification says of it)
Gen(last) == last + 1

\* a roll that returns the value it drew first
RollAny(tbl, username) == Discriminators

\* the values rollDiscriminator's loop can leave with: the drawn value is
\* returned when no account has it under this username, drawn again otherwise
RollDiscriminator(tbl, username) ==
  {d \in Discriminators : UsersTagged(tbl, username, d) = {}}

\* the document createUser inserts
NewUser(id, username, discriminator, password) ==
  [id |-> id, username |-> username, discriminator |-> discriminator,
   password |-> Hash(password), servers |-> <<>>, online |-> FALSE,
   avatarUrl |-> Undefined, admin |-> "undefined"]

\* an update that takes a null avatar for an omitted one
UpdatedUserTruthyAvatar(u, username, discriminator, password, avatarUrl, admin) ==
  [u EXCEPT !.username = username,
            !.discriminator = discriminator,
            !.password = IF ~Falsy(password) THEN Hash(password) ELSE @,
            !.avatarUrl = IF ~Falsy(avatarUrl) THEN avatarUrl ELSE @,
            !.admin = IF admin = "true" \/ admin = "false" THEN admin ELSE @]

\* the document updateUser's update leaves
UpdatedUser(u, username, discriminator, password, avatarUrl, admin) ==
  [u EXCEPT !.username = username,
            !.discriminator = discriminator,
            !.password = IF ~Falsy(password) THEN Hash(password) ELSE @,
            !.avatarUrl = IF avatarUrl # Undefined THEN avatarUrl ELSE @,
            !.admin = IF admin = "true" \/ admin = "false" THEN admin ELSE @]

\* get(id).update(...): nothing is written when the key has no document
Update(tbl, id, doc) ==
  IF id \in DOMAIN tbl /\ tbl[id] # Absent THEN [tbl EXCEPT ![id] = doc] ELSE tbl

(***************************************************************************)
(* Account operations, each run to completion.                             *)
(***************************************************************************)
\* history: the discriminators the calls before this one returned for the
\* username, as far back as the calls were createUser or updateUser calls
\* for it
Rolled(username) ==
  IF ret.op \in {"createUser", "updateUser"} /\ ret.username = username
  THEN ret.rolled ELSE {}

\* a createUser that takes the id after the largest stored one
CreateUserNextStored(username, password) ==
  LET id == IF Keys(users) = {} THEN 1
            ELSE 1 + CHOOSE m \in Keys(users) : \A k \in Keys(users) : k <= m
  IN /\ flake < MaxAccounts
     /\ \E d \in RollDiscriminator(users, username) :
          /\ users' = Insert(users, NewUser(id, username, d, password))
          /\ ret' = [op |-> "createUser", id |-> id, username |-> username,
                     password |-> password, tag |-> Tag(username, d),
                     discriminator |-> d, rolled |-> Rolled(username) \cup {d},
                     repeat |-> d \in Rolled(username)]
     /\ flake' = Gen(flake)
     /\ born' = born \cup {id}
     /\ UNCHANGED <<servers, invites, messages, codes, calls>>

CreateUser(username, password) ==
  /\ flake < MaxAccounts
  /\ \E d \in RollDiscriminator(users, username) :
       /\ users' = Insert(users, NewUser(Gen(flake), username, d, password))
       /\ ret' = [op |-> "createUser", id |-> Gen(flake), username |-> username,
                  password |-> password, tag |-> Tag(username, d),
                  discriminator |-> d, rolled |-> Rolled(username) \cup {d},
                  repeat |-> d \in Rolled(username)]
  /\ flake' = Gen(flake)
  /\ born' = born \cup {Gen(flake)}
  /\ UNCHANGED <<servers, invites, messages, codes, calls>>

UpdateUser(id, username, password, avatarUrl, admin) ==
  /\ \E d \in RollDiscriminator(users, username) :
       /\ users' = Update(users, id,
                          UpdatedUser(users[id], username, d, password, avatarUrl, admin))
       /\ ret' = [op |-> "updateUser", id |-> id, username |-> username,
                  password |-> password, avatarUrl |-> avatarUrl, admin |-> admin,
                  tag |-> Tag(username, d),
                  was |-> IF id \in Keys(users) /\ users[id].username = username
                          THEN users[id].discriminator ELSE Undefined,
                  discriminator |-> d, rolled |-> Rolled(username) \cup {d},
                  repeat |-> d \in Rolled(username)]
  /\ UNCHANGED <<servers, invites, messages, flake, codes, calls, born>>

\* a call that lets the failure of its update through
CompletionUncaught(failed) == IF failed THEN "threw" ELSE "returned"

\* updatePresenceOf's try with its empty catch: the call returns whether the
\* update threw or not
Completion(failed) == "returned"

\* updatePresenceOf; an update that fails writes nothing
UpdatePresenceOf(id, online, failed) ==
  /\ users' = IF failed \/ users[id] = Absent THEN users
              ELSE Update(users, id, [users[id] EXCEPT !.online = online])
  /\ ret' = [op |-> "updatePresenceOf", id |-> id, online |-> online,
             failed |-> failed, result |-> Completion(failed)]
  /\ UNCHANGED <<servers, invites, messages, flake, codes, calls, born>>

DeleteUser(id) ==
  /\ users' = Delete(users, id)
  /\ ret' = [op |-> "deleteUser"]
  /\ UNCHANGED <<servers, invites, messages, flake, codes, calls, born>>

(***************************************************************************)
(* Server, membership, invite and message operations.                      *)
(***************************************************************************)
\* a largestId that is the smallest id stored
LargestIdSmallest(stbl) ==
  IF Keys(stbl) = {} THEN 0
  ELSE CHOOSE m \in Keys(stbl) : \A k \in Keys(stbl) : m <= k

\* largestId of createServer: max('id') throws on an empty table, which the
\* catch turns into 0
LargestId(stbl) ==
  IF Keys(stbl) = {} THEN 0
  ELSE CHOOSE m \in Keys(stbl) : \A k \in Keys(stbl) : k <= m

\* addMemberToServer's effect on the users table, given what it read
AppendServer(utbl, userId, id) ==
  IF userId \in DOMAIN utbl /\ utbl[userId] # Absent
  THEN [utbl EXCEPT ![userId].servers = Append(@, id)]
  ELSE utbl

\* a join that does not look for the id in the user's list
JoinSkippedNoIncludes(user, server, id) ==
  user = Absent \/ server = Absent

\* a join that does not look the server up
JoinSkippedNoServer(user, server, id) ==
  user = Absent \/ Includes(user.servers, id)

\* addMemberToServer's early return
JoinSkipped(user, server, id) ==
  user = Absent \/ server = Absent \/ Includes(user.servers, id)

\* addMemberToServer, run to completion
AddMember(utbl, stbl, userId, id) ==
  IF JoinSkipped(utbl[userId], stbl[id], id) THEN utbl ELSE AppendServer(utbl, userId, id)

\* removeMemberFromServer's update
RemoveMember(utbl, userId, serverId) ==
  IF userId \in DOMAIN utbl /\ utbl[userId] # Absent
  THEN [utbl EXCEPT ![userId].servers = Difference(@, serverId)]
  ELSE utbl

\* a strip that empties the list of each member instead of taking the id out
StripServerAll(utbl, serverId) ==
  [k \in DOMAIN utbl |->
     IF utbl[k] # Absent /\ Includes(utbl[k].servers, serverId)
     THEN [utbl[k] EXCEPT !.servers = <<>>]
     ELSE utbl[k]]

\* deleteServer's third statement
StripServer(utbl, serverId) ==
  [k \in DOMAIN utbl |->
     IF utbl[k] # Absent /\ Includes(utbl[k].servers, serverId)
     THEN [utbl[k] EXCEPT !.servers = Difference(@, serverId)]
     ELSE utbl[k]]

\* deleteServer's second statement
DeleteInvitesOf(itbl, serverId) ==
  [c \in DOMAIN itbl |->
     IF itbl[c] # Absent /\ itbl[c].serverId = serverId THEN Absent ELSE itbl[c]]

\* a user document without(['servers', 'password'])
Member(u) ==
  [id |-> u.id, username |-> u.username, discriminator |-> u.discriminator,
   online |-> u.online, avatarUrl |-> u.avatarUrl, admin |-> u.admin]

\* users.filter(u => u('servers').contains(serverId))
MemberIds(utbl, serverId) == {k \in Keys(utbl) : Includes(utbl[k].servers, serverId)}

\* getServer: the server merged with its members, null for a missing server
GetServer(stbl, utbl, serverId) ==
  IF stbl[serverId] = Absent THEN Absent
  ELSE [id |-> serverId, name |-> stbl[serverId].name, iconUrl |-> stbl[serverId].iconUrl,
        owner |-> stbl[serverId].owner,
        members |-> {Member(utbl[k]) : k \in MemberIds(utbl, serverId)}]

\* the document updateServer's update leaves
UpdatedServer(s, name, iconUrl) ==
  [s EXCEPT !.name = IF ~Falsy(name) THEN name ELSE @,
            !.iconUrl = IF iconUrl # Undefined THEN iconUrl ELSE @]

CreateServer(name, iconUrl, owner) ==
  LET id == LargestId(servers) + 1
      inserted == Insert(servers, [id |-> id, name |-> name, iconUrl |-> iconUrl,
                                   owner |-> owner])
      joined == AddMember(users, inserted, owner, id)
  IN /\ id <= MaxServerId
     /\ servers' = inserted
     /\ users' = joined
     /\ ret' = [op |-> "createServer", owner |-> owner,
                server |-> GetServer(inserted, joined, id)]
     /\ UNCHANGED <<invites, messages, flake, codes, calls, born>>

UpdateServer(id, name, iconUrl) ==
  /\ servers' = Update(servers, id, UpdatedServer(servers[id], name, iconUrl))
  /\ ret' = [op |-> "updateServer"]
  /\ UNCHANGED <<users, invites, messages, flake, codes, calls, born>>

AddMemberToServer(userId, id) ==
  /\ users' = AddMember(users, servers, userId, id)
  /\ ret' = [op |-> "addMemberToServer", userId |-> userId, id |-> id,
              skipped |-> JoinSkipped(users[userId], servers[id], id)]
  /\ UNCHANGED <<servers, invites, messages, flake, codes, calls, born>>

RemoveMemberFromServer(userId, serverId) ==
  /\ users' = RemoveMember(users, userId, serverId)
  /\ ret' = [op |-> "removeMemberFromServer"]
  /\ UNCHANGED <<servers, invites, messages, flake, codes, calls, born>>

DeleteServer(serverId) ==
  /\ servers' = Delete(servers, serverId)
  /\ invites' = DeleteInvitesOf(invites, serverId)
  /\ users' = StripServer(users, serverId)
  /\ ret' = [op |-> "deleteServer", id |-> serverId,
              deleted |-> Cardinality({c \in Keys(invites) : invites[c].serverId = serverId}),
              replaced |-> Cardinality(MemberIds(users, serverId))]
  /\ UNCHANGED <<messages, flake, codes, calls, born>>

\* a generateInvite that stores the two arguments in each other's field
GenerateInviteSwapped(serverId, inviter) ==
  /\ codes + 1 \in InviteCodes
  /\ invites' = Insert(invites, [id |-> codes + 1, serverId |-> inviter,
                                 inviter |-> serverId])
  /\ codes' = codes + 1
  /\ ret' = [op |-> "generateInvite", code |-> codes + 1, serverId |-> serverId,
             inviter |-> inviter]
  /\ UNCHANGED <<users, servers, messages, flake, calls, born>>

\* shortId() is taken to give a code it has not given before
GenerateInvite(serverId, inviter) ==
  /\ codes + 1 \in InviteCodes
  /\ invites' = Insert(invites, [id |-> codes + 1, serverId |-> serverId,
                                 inviter |-> inviter])
  /\ codes' = codes + 1
  /\ ret' = [op |-> "generateInvite", code |-> codes + 1, serverId |-> serverId,
             inviter |-> inviter]
  /\ UNCHANGED <<users, servers, messages, flake, calls, born>>

\* getInvite: the invite stored under the code, null when there is none
GetInvite(code) ==
  /\ ret' = [op |-> "getInvite", code |-> code,
             invite |-> IF code \in DOMAIN invites THEN invites[code] ELSE Absent]
  /\ UNCHANGED <<users, servers, invites, messages, flake, codes, calls, born>>

StoreMessage(id, author, server, contents, now) ==
  /\ messages' = Insert(messages, [id |-> id, author |-> author, server |-> server,
                                   contents |-> contents, createdAt |-> now])
  /\ ret' = [op |-> "storeMessage"]
  /\ UNCHANGED <<users, servers, invites, flake, codes, calls, born>>

UpdateMessage(id, contents) ==
  /\ messages' = Update(messages, id, [messages[id] EXCEPT !.contents = contents])
  /\ ret' = [op |-> "updateMessage"]
  /\ UNCHANGED <<users, servers, invites, flake, codes, calls, born>>

DeleteMessage(id) ==
  /\ messages' = Delete(messages, id)
  /\ ret' = [op |-> "deleteMessage"]
  /\ UNCHANGED <<users, servers, invites, flake, codes, calls, born>>

(***************************************************************************)
(* The server registry over two registered accounts and a stored message,  *)
(* its operations run one after the other.                                 *)
(***************************************************************************)
vars == <<users, servers, invites, messages, flake, codes, ret, calls, born>>

\* the accounts registered before the first server call: "a#0001", "b#0001"
Registered == {1, 2}

Init ==
  /\ users = [k \in AccountIds |->
                IF k \in Registered
                THEN NewUser(k, <<96 + k>>, PadStart(Digits(1), DiscrimWidth, Zero), <<112>>)
                ELSE Absent]
  /\ servers = [k \in ServerIds |-> Absent]
  /\ invites = [k \in InviteCodes |-> Absent]
  /\ messages = [k \in MessageIds |->
                   [id |-> k, author |-> 1, server |-> 1, contents |-> <<120>>,
                    createdAt |-> 1]]
  /\ flake = Cardinality(Registered)
  /\ born = Registered
  /\ codes = 0
  /\ ret = [op |-> "none"]
  /\ calls = [p \in Procs |-> Idle]

Next ==
  \/ \E id \in Registered : DeleteUser(id)
  \/ \E owner \in Registered : CreateServer(<<71>>, Null, owner)
  \/ \E userId \in Registered, id \in ServerIds : AddMemberToServer(userId, id)
  \/ \E userId \in Registered, id \in ServerIds : RemoveMemberFromServer(userId, id)
  \/ \E id \in ServerIds : DeleteServer(id)
  \/ \E id \in ServerIds : GenerateInvite(id, 1)

Spec == Init /\ [][Next]_vars

(***************************************************************************)
(* The invites of the servers of the first account, which the second       *)
(* account joins; operations run one after the other.  Code 2 is never     *)
(* issued.                                                                 *)
(***************************************************************************)
NextInvites ==
  \/ CreateServer(<<71>>, Null, 1)
  \/ \E id \in ServerIds, inviter \in Registered : GenerateInvite(id, inviter)
  \/ \E code \in {1, 2} : GetInvite(code)
  \/ \E id \in ServerIds : AddMemberToServer(2, id)
  \/ \E id \in ServerIds : DeleteServer(id)

SpecInvites == Init /\ [][NextInvites]_vars

(***************************************************************************)
(* Authentication.                                                         *)
(***************************************************************************)
\* "Basic"
BasicType == <<66, 97, 115, 105, 99>>

\* a parse that does not look at the type of the header
CredentialsAnyType(auth) ==
  IF Falsy(auth) THEN Absent
  ELSE LET parts == Split(auth, Space)
           creds == Nth(parts, 2)
       IN IF Falsy(creds) THEN Absent
          ELSE LET up == Split(Base64Decode(creds), Colon)
                   username == Nth(up, 1)
                   password == Nth(up, 2)
                   nd == IF ~Falsy(username) THEN Split(username, HashCh) ELSE <<>>
                   name == Nth(nd, 1)
                   discriminator == Nth(nd, 2)
               IN IF Falsy(username) \/ Falsy(password) \/ Falsy(name)
                     \/ Falsy(discriminator)
                  THEN Absent
                  ELSE [name |-> name, discriminator |-> discriminator,
                        password |-> password]

\* authenticate up to its lookup: null for a header it rejects, otherwise the
\* name, discriminator and password it goes on with
Credentials(auth) ==
  IF Falsy(auth) THEN Absent
  ELSE LET parts == Split(auth, Space)
           type == Nth(parts, 1)
           creds == Nth(parts, 2)
       IN IF type # BasicType \/ Falsy(creds) THEN Absent
          ELSE LET up == Split(Base64Decode(creds), Colon)
                   username == Nth(up, 1)
                   password == Nth(up, 2)
                   nd == IF ~Falsy(username) THEN Split(username, HashCh) ELSE <<>>
                   name == Nth(nd, 1)
                   discriminator == Nth(nd, 2)
               IN IF Falsy(username) \/ Falsy(password) \/ Falsy(name)
                     \/ Falsy(discriminator)
                  THEN Absent
                  ELSE [name |-> name, discriminator |-> discriminator,
                        password |-> password]

\* authenticate after its lookup found user: the user when the password
\* compares with the stored hash, null otherwise
Verified(user, password) == IF Compare(password, user.password) THEN user ELSE Absent

\* nth(0) of the filter is any of the documents the filter finds
Authenticate(auth) ==
  /\ LET c == Credentials(auth) IN
       IF c = Absent THEN ret' = [op |-> "authenticate", auth |-> auth, user |-> Absent]
       ELSE IF UsersTagged(users, c.name, c.discriminator) = {}
       THEN ret' = [op |-> "authenticate", auth |-> auth, user |-> Absent]
       ELSE \E k \in UsersTagged(users, c.name, c.discriminator) :
              ret' = [op |-> "authenticate", auth |-> auth,
                      user |-> Verified(users[k], c.password)]
  /\ UNCHANGED <<users, servers, invites, messages, flake, codes, calls, born>>

\* the header a client sends for a tag and a password
BasicHeader(tag, password) ==
  BasicType \o <<Space>> \o Base64Encode(tag \o <<Colon>> \o password)

\* "a#0001:p" with each of its five parts left out or not: the payloads a
\* client can get wrong
BrokenPayloads ==
  {n \o h \o d \o c \o p : n \in {<<>>, <<97>>}, h \in {<<>>, <<HashCh>>},
                           d \in {<<>>, PadStart(Digits(1), DiscrimWidth, Zero)},
                           c \in {<<>>, <<Colon>>}, p \in {<<>>, <<112>>}}

\* the passwords a client sends: "p", "q", "p:q"
HeaderPasswords == {<<112>>, <<113>>, <<112, 58, 113>>}

\* "Bearer"
BearerType == <<66, 101, 97, 114, 101, 114>>

\* the headers the callers send: none, a type alone, a type that is not
\* Basic, the broken payloads, and every tag of "a" with every password
Headers ==
  {<<>>, BasicType, BasicType \o <<Space>>,
   BearerType \o <<Space>> \o Base64Encode(<<97, 35, 48, 48, 48, 49, 58, 112>>)}
    \cup {BasicType \o <<Space>> \o Base64Encode(x) : x \in BrokenPayloads}
    \cup {BasicHeader(Tag(<<97>>, d), p) : d \in Discriminators, p \in HeaderPasswords}

(***************************************************************************)
(* The account registry with authentication, its operations run one after  *)
(* the other.                                                              *)
(***************************************************************************)
InitEmpty ==
  /\ users = [k \in AccountIds |-> Absent]
  /\ servers = [k \in ServerIds |-> Absent]
  /\ invites = [k \in InviteCodes |-> Absent]
  /\ messages = [k \in MessageIds |-> Absent]
  /\ flake = 0
  /\ born = {}
  /\ codes = 0
  /\ ret = [op |-> "none"]
  /\ calls = [p \in Procs |-> Idle]

NextAuth ==
  \/ \E password \in {<<112>>, <<112, 58, 113>>} : CreateUser(<<97>>, password)
  \/ \E id \in AccountIds : DeleteUser(id)
  \/ \E auth \in Headers : Authenticate(auth)

SpecAuth == InitEmpty /\ [][NextAuth]_vars

(***************************************************************************)
(* The account registry, its operations run one after the other.           *)
(***************************************************************************)
NextUsers ==
  \/ \E username \in Usernames : CreateUser(username, <<112>>)
  \/ \E id \in AccountIds, username \in Usernames, password \in {Undefined, <<113>>} :
       UpdateUser(id, username, password, Undefined, "undefined")
  \/ \E id \in AccountIds : DeleteUser(id)

SpecUsers == InitEmpty /\ [][NextUsers]_vars

(***************************************************************************)
(* The server registry with calls in flight together.  Each await of a     *)
(* call is a step of its own; a step of another caller can come between    *)
(* two of them.  solo and sole are history: solo says that no other call   *)
(* has been in flight since this call was made, sole that no other         *)
(* createServer has.                                                       *)
(***************************************************************************)
RaceIds == 1..MaxRaceId

Quiet(p) == \A q \in Procs \ {p} : calls[q].pc = "idle"

\* caller p goes on with c; the calls of the others are no longer solo
Begin(p, c) ==
  [q \in Procs |->
     IF q = p THEN c
     ELSE IF calls[q].op = "createServer"
     THEN [calls[q] EXCEPT !.solo = FALSE, !.sole = @ /\ c.op # "createServer"]
     ELSE IF "solo" \in DOMAIN calls[q] THEN [calls[q] EXCEPT !.solo = FALSE]
     ELSE calls[q]]

Goto(p, c) == [calls EXCEPT ![p] = c]

\* createServer is called
CallCreateServer(p, name, iconUrl, owner) ==
  /\ calls[p].pc = "idle"
  /\ calls' = Begin(p, [pc |-> "max", op |-> "createServer", name |-> name,
                        iconUrl |-> iconUrl, owner |-> owner, userId |-> owner,
                        id |-> 0, user |-> Absent, skipped |-> FALSE,
                        solo |-> Quiet(p),
                        sole |-> \A q \in Procs \ {p} : calls[q].op # "createServer"])
  /\ UNCHANGED <<users, servers, invites, messages, flake, codes, ret, born>>

\* a createServer that takes the first id whatever is stored
ReadNoIdUpTo(p, max) ==
  /\ calls[p].pc = "max"
  /\ 1 <= max
  /\ calls' = Goto(p, [calls[p] EXCEPT !.pc = "insert", !.id = 1])
  /\ UNCHANGED <<users, servers, invites, messages, flake, codes, ret, born>>

\* createServer's max('id') query, for ids up to max
ReadLargestIdUpTo(p, max) ==
  /\ calls[p].pc = "max"
  /\ LargestId(servers) + 1 <= max
  /\ calls' = Goto(p, [calls[p] EXCEPT !.pc = "insert", !.id = LargestId(servers) + 1])
  /\ UNCHANGED <<users, servers, invites, messages, flake, codes, ret, born>>

ReadLargestId(p) == ReadLargestIdUpTo(p, MaxRaceId)

\* createServer's insert
InsertServer(p) ==
  /\ calls[p].pc = "insert"
  /\ servers' = Insert(servers, [id |-> calls[p].id, name |-> calls[p].name,
                                 iconUrl |-> calls[p].iconUrl, owner |-> calls[p].owner])
  /\ calls' = Goto(p, [calls[p] EXCEPT !.pc = "user"])
  /\ UNCHANGED <<users, invites, messages, flake, codes, ret, born>>

\* addMemberToServer is called
CallAddMemberToServer(p, userId, id) ==
  /\ calls[p].pc = "idle"
  /\ calls' = Begin(p, [pc |-> "user", op |-> "addMemberToServer", userId |-> userId,
                        id |-> id, user |-> Absent, skipped |-> FALSE])
  /\ UNCHANGED <<users, servers, invites, messages, flake, codes, ret, born>>

\* addMemberToServer's read of the user
ReadUser(p) ==
  /\ calls[p].pc = "user"
  /\ calls' = Goto(p, [calls[p] EXCEPT !.pc = "server", !.user = users[calls[p].userId]])
  /\ UNCHANGED <<users, servers, invites, messages, flake, codes, ret, born>>

\* addMemberToServer's read of the server and the test that follows it; the
\* user it read is not used after the test
ReadServer(p) ==
  /\ calls[p].pc = "server"
  /\ calls' = Goto(p, [calls[p] EXCEPT
                         !.pc = "append",
                         !.skipped = JoinSkipped(calls[p].user, servers[calls[p].id],
                                                 calls[p].id),
                         !.user = Absent])
  /\ UNCHANGED <<users, servers, invites, messages, flake, codes, ret, born>>

\* addMemberToServer's early return or its append to the stored list; it
\* returns to createServer or to its caller
AppendOrReturn(p) ==
  /\ calls[p].pc = "append"
  /\ users' = IF calls[p].skipped THEN users
              ELSE AppendServer(users, calls[p].userId, calls[p].id)
  /\ IF calls[p].op = "createServer"
     THEN /\ calls' = Goto(p, [calls[p] EXCEPT !.pc = "get"])
          /\ ret' = ret
     ELSE /\ calls' = Goto(p, Idle)
          /\ ret' = [op |-> "addMemberToServer", userId |-> calls[p].userId,
                     id |-> calls[p].id, skipped |-> calls[p].skipped]
  /\ UNCHANGED <<servers, invites, messages, flake, codes, born>>

\* createServer's getServer query and its return
ReturnServer(p) ==
  /\ calls[p].pc = "get"
  /\ ret' = [op |-> "createServer", owner |-> calls[p].owner, id |-> calls[p].id,
             server |-> GetServer(servers, users, calls[p].id),
             solo |-> calls[p].solo, sole |-> calls[p].sole]
  /\ calls' = Goto(p, Idle)
  /\ UNCHANGED <<users, servers, invites, messages, flake, codes, born>>

\* deleteServer is called
CallDeleteServer(p, serverId) ==
  /\ calls[p].pc = "idle"
  /\ calls' = Begin(p, [pc |-> "delete", op |-> "deleteServer", id |-> serverId,
                        found |-> FALSE])
  /\ UNCHANGED <<users, servers, invites, messages, flake, codes, ret, born>>

\* deleteServer's first statement
DeleteRecord(p) ==
  /\ calls[p].pc = "delete"
  /\ servers' = Delete(servers, calls[p].id)
  /\ calls' = Goto(p, [calls[p] EXCEPT !.pc = "invites",
                                       !.found = servers[calls[p].id] # Absent])
  /\ UNCHANGED <<users, invites, messages, flake, codes, ret, born>>

\* deleteServer's second statement
DeleteInvites(p) ==
  /\ calls[p].pc = "invites"
  /\ invites' = DeleteInvitesOf(invites, calls[p].id)
  /\ calls' = Goto(p, [calls[p] EXCEPT !.pc = "strip"])
  /\ UNCHANGED <<users, servers, messages, flake, codes, ret, born>>

\* deleteServer's third statement and its return
StripMembers(p) ==
  /\ calls[p].pc = "strip"
  /\ users' = StripServer(users, calls[p].id)
  /\ ret' = [op |-> "deleteServer", id |-> calls[p].id]
  /\ calls' = Goto(p, Idle)
  /\ UNCHANGED <<servers, invites, messages, flake, codes, born>>

\* removeMemberFromServer: one query
CallRemoveMemberFromServer(p, userId, serverId) ==
  /\ calls[p].pc = "idle"
  /\ users' = RemoveMember(users, userId, serverId)
  /\ ret' = [op |-> "removeMemberFromServer"]
  /\ calls' = Begin(p, Idle)
  /\ UNCHANGED <<servers, invites, messages, flake, codes, born>>

NextRace ==
  \E p \in Procs :
    \/ CallCreateServer(p, <<71>>, Null, p)
    \/ ReadLargestId(p)
    \/ InsertServer(p)
    \/ \E id \in RaceIds : CallAddMemberToServer(p, p, id)
    \/ ReadUser(p)
    \/ ReadServer(p)
    \/ AppendOrReturn(p)
    \/ ReturnServer(p)
    \/ \E id \in RaceIds : CallDeleteServer(p, id)
    \/ DeleteRecord(p)
    \/ DeleteInvites(p)
    \/ StripMembers(p)
    \/ \E id \in RaceIds : CallRemoveMemberFromServer(p, p, id)

SpecRace == Init /\ [][NextRace]_vars

(***************************************************************************)
(* The createServer and deleteServer calls of the two accounts in flight   *)
(* together.  A deleteServer that stops between two statements, as when    *)
(* the process crashes, is a call that takes no further step.              *)
(***************************************************************************)
NextAlloc ==
  \E p \in Procs :
    \/ CallCreateServer(p, <<71>>, Null, p)
    \/ ReadLargestIdUpTo(p, MaxServerId)
    \/ InsertServer(p)
    \/ ReadUser(p)
    \/ ReadServer(p)
    \/ AppendOrReturn(p)
    \/ ReturnServer(p)
    \/ \E id \in ServerIds : CallDeleteServer(p, id)
    \/ DeleteRecord(p)
    \/ DeleteInvites(p)
    \/ StripMembers(p)

SpecAlloc == Init /\ [][NextAlloc]_vars

(***************************************************************************)
(* The profile and the presence of the first account, which has created a  *)
(* server, its operations run one after the other; the store can fail an   *)
(* update of the presence.                                                 *)
(***************************************************************************)
InitProfile ==
  /\ servers = [k \in ServerIds |->
                  IF k = 1 THEN [id |-> 1, name |-> <<71>>, iconUrl |-> Null, owner |-> 1]
                  ELSE Absent]
  /\ users = [k \in AccountIds |->
                IF k \in Registered
                THEN [NewUser(k, <<96 + k>>, PadStart(Digits(1), DiscrimWidth, Zero), <<112>>)
                        EXCEPT !.servers = IF k = 1 THEN <<1>> ELSE <<>>]
                ELSE Absent]
  /\ invites = [k \in InviteCodes |-> Absent]
  /\ messages = [k \in MessageIds |-> Absent]
  /\ flake = Cardinality(Registered)
  /\ born = Registered
  /\ codes = 0
  /\ ret = [op |-> "none"]
  /\ calls = [p \in Procs |-> Idle]

NextProfile ==
  \/ \E password \in {Undefined, <<113>>}, avatarUrl \in {Undefined, Null, <<117>>},
        admin \in {"undefined", "true", "false"} :
       UpdateUser(1, <<97>>, password, avatarUrl, admin)
  \/ \E id \in Registered, online \in BOOLEAN, failed \in BOOLEAN :
       UpdatePresenceOf(id, online, failed)

SpecProfile == InitProfile /\ [][NextProfile]_vars

(***************************************************************************)
(* The account registry with calls in flight together.  Every pass of      *)
(* rollDiscriminator's loop is a step: it draws a value and counts the      *)
(* accounts that have it.  The table has one id more than createUser can   *)
(* store accounts under one username, so that a createUser can be called   *)
(* when every discriminator of the username is taken.                      *)
(***************************************************************************)
RaceAccountIds == 1..(MaxDiscrim + 1)

InitNames ==
  /\ users = [k \in RaceAccountIds |-> Absent]
  /\ servers = [k \in ServerIds |-> Absent]
  /\ invites = [k \in InviteCodes |-> Absent]
  /\ messages = [k \in MessageIds |-> Absent]
  /\ flake = 0
  /\ codes = 0
  /\ ret = [op |-> "none"]
  /\ calls = [p \in Procs |-> Idle]
  /\ born = {}

\* createUser is called: it takes its id and enters rollDiscriminator
CallCreateUser(p, username, password) ==
  /\ calls[p].pc = "idle"
  /\ Gen(flake) \in RaceAccountIds
  /\ flake' = Gen(flake)
  /\ calls' = Begin(p, [pc |-> "roll", op |-> "createUser", id |-> Gen(flake),
                        username |-> username, password |-> password,
                        avatarUrl |-> Undefined, admin |-> "undefined",
                        discriminator |-> Undefined, solo |-> Quiet(p)])
  /\ UNCHANGED <<users, servers, invites, messages, codes, ret, born>>

\* updateUser is called: it enters rollDiscriminator
CallUpdateUser(p, id, username, password, avatarUrl, admin) ==
  /\ calls[p].pc = "idle"
  /\ calls' = Begin(p, [pc |-> "roll", op |-> "updateUser", id |-> id,
                        username |-> username, password |-> password,
                        avatarUrl |-> avatarUrl, admin |-> admin,
                        discriminator |-> Undefined, solo |-> Quiet(p)])
  /\ UNCHANGED <<users, servers, invites, messages, flake, codes, ret, born>>

\* a pass of the loop that returns the value drawn without the count
RollUncounted(p) ==
  /\ calls[p].pc = "roll"
  /\ \E d \in Discriminators :
       calls' = Goto(p, [calls[p] EXCEPT !.discriminator = d, !.pc = "write"])
  /\ UNCHANGED <<users, servers, invites, messages, flake, codes, ret, born>>

\* one pass of rollDiscriminator's loop: the value drawn is returned when the
\* count finds no account with it, and the loop goes round otherwise
Roll(p) ==
  /\ calls[p].pc = "roll"
  /\ \E d \in Discriminators :
       calls' = Goto(p, [calls[p] EXCEPT
                           !.discriminator = d,
                           !.pc = IF UsersTagged(users, calls[p].username, d) = {}
                                  THEN "write" ELSE "roll"])
  /\ UNCHANGED <<users, servers, invites, messages, flake, codes, ret, born>>

\* createUser's insert or updateUser's update, and the return of the tag
Write(p) ==
  /\ calls[p].pc = "write"
  /\ LET c == calls[p] IN
       /\ users' = IF c.op = "createUser"
                   THEN Insert(users, NewUser(c.id, c.username, c.discriminator, c.password))
                   ELSE Update(users, c.id,
                               UpdatedUser(users[c.id], c.username, c.discriminator,
                                           c.password, c.avatarUrl, c.admin))
       /\ born' = IF c.op = "createUser" THEN born \cup {c.id} ELSE born
       /\ ret' = [op |-> c.op, id |-> c.id, username |-> c.username,
                  tag |-> Tag(c.username, c.discriminator), solo |-> c.solo]
  /\ calls' = Goto(p, Idle)
  /\ UNCHANGED <<servers, invites, messages, flake, codes>>

\* deleteUser: one query
CallDeleteUser(p, userId) ==
  /\ calls[p].pc = "idle"
  /\ users' = Delete(users, userId)
  /\ ret' = [op |-> "deleteUser"]
  /\ calls' = Begin(p, Idle)
  /\ UNCHANGED <<servers, invites, messages, flake, codes, born>>

NextNames ==
  \E p \in Procs :
    \/ CallCreateUser(p, <<97>>, <<112>>)
    \/ CallUpdateUser(p, 1, <<97>>, Undefined, Undefined, "undefined")
    \/ Roll(p)
    \/ Write(p)
    \/ CallDeleteUser(p, 1)

SpecNames == InitNames /\ [][NextNames]_vars

\* a call in flight goes on when the store answers its query
SpecNamesFair ==
  SpecNames /\ \A p \in Procs : WF_vars(Roll(p)) /\ WF_vars(Write(p))

(***************************************************************************)
(* Claims about the account registry (specification SpecUsers).            *)
(***************************************************************************)
\* C1: no two stored accounts have the same username and the same
\* discriminator.
C1_UniqueTags ==
  \A k1 \in Keys(users), k2 \in Keys(users) :
    (k1 # k2 /\ users[k1].username = users[k2].username)
      => users[k1].discriminator # users[k2].discriminator

\* a string of DiscrimWidth decimal digits that is not all zeros
WellFormed(d) ==
  /\ Len(d) = DiscrimWidth
  /\ \A i \in 1..Len(d) : d[i] \in Zero..(Zero + 9)
  /\ \E i \in 1..Len(d) : d[i] # Zero

C15_UpdateFrame ==
  [][ret'.op = "updateUser" =>
       LET u == users[ret'.id]
           v == users'[ret'.id]
       IN /\ \A k \in DOMAIN users \ {ret'.id} : users'[k] = users[k]
          /\ UNCHANGED <<servers, invites, messages>>
          /\ IF u = Absent THEN v = Absent
             ELSE /\ v.id = u.id
                  /\ v.servers = u.servers
                  /\ v.online = u.online
                  /\ Falsy(ret'.password) => v.password = u.password
                  /\ ret'.avatarUrl = Undefined => v.avatarUrl = u.avatarUrl
                  /\ ret'.avatarUrl = Null => v.avatarUrl = Null
                  /\ ret'.admin = "undefined" => v.admin = u.admin]_vars

\* C15 witness: an updateUser with a null avatar and nothing else has
\* returned for an online account that is an admin with a changed password
\* and a server.
C15_Witness ==
  /\ ret.op = "updateUser"
  /\ ret.avatarUrl = Null
  /\ ret.password = Undefined
  /\ ret.admin = "undefined"
  /\ users[ret.id] # Absent
  /\ users[ret.id].avatarUrl = Null
  /\ users[ret.id].password = Hash(<<113>>)
  /\ users[ret.id].admin = "true"
  /\ users[ret.id].online
  /\ users[ret.id].servers # <<>>

\* C17: updatePresenceOf returns to its caller whether the store persisted
\* the update or not, and when the store did not, no account has changed.
C17_PresenceSwallowed ==
  [][ret'.op = "updatePresenceOf" =>
       /\ ret'.result = "returned"
       /\ ret'.failed => users' = users
       /\ UNCHANGED <<servers, invites, messages>>]_vars

\* C17 witness: an updatePresenceOf that the store failed has returned for
\* a stored account whose presence it would have changed.
C17_Witness ==
  /\ ret.op = "updatePresenceOf"
  /\ ret.failed
  /\ ret.result = "returned"
  /\ users[ret.id] # Absent
  /\ users[ret.id].online # ret.online

C1_Witness ==
  /\ ret.op = "updateUser"
  /\ ret.id \in Keys(users)
  /\ \E k \in Keys(users) \ {ret.id} : users[k].username = ret.username

(***************************************************************************)
(* Claims about authentication (specification SpecAuth).                   *)
(***************************************************************************)
\* a string without ':' and without '#'
NoSeparator(str) == \A i \in 1..Len(str) : str[i] # Colon /\ str[i] # HashCh

\* C7: right after register(username, password) has returned tag T, for a
\* username and password without ':' and '#', authenticate of the Basic
\* header of T and the password returns the account register created, and of
\* T and any other password returns none.
C7_RegisterThenAuthenticate ==
  [][(/\ ret.op = "createUser"
      /\ NoSeparator(ret.username)
      /\ NoSeparator(ret.password)
      /\ ret'.op = "authenticate") =>
       /\ ret'.auth = BasicHeader(ret.tag, ret.password) => ret'.user = users[ret.id]
       /\ \A p \in HeaderPasswords \ {ret.password} :
            ret'.auth = BasicHeader(ret.tag, p) => ret'.user = Absent]_vars

\* C8: the password authenticate checks is all of the payload after its first
\* ':', so that the header of an account's tag and its password, with or
\* without a ':' in the password, returns the account.
C8_PasswordAfterFirstColon ==
  [][ret'.op = "authenticate" =>
       \A k \in Keys(users), p \in HeaderPasswords :
         (/\ ret'.auth = BasicHeader(Tag(users[k].username, users[k].discriminator), p)
          /\ Compare(p, users[k].password))
           => ret'.user = users[k]]_vars

\* the headers C9 lists: the empty header, a type other than Basic, a header
\* without payload, and the payloads without colon, without password, without
\* name, without '#' or without discriminator
MalformedHeaders ==
  {<<>>, BasicType, BasicType \o <<Space>>,
   BearerType \o <<Space>> \o Base64Encode(<<97, 35, 48, 48, 48, 49, 58, 112>>)}
    \cup {BasicType \o <<Space>> \o Base64Encode(x) :
            x \in BrokenPayloads \ {<<97, 35, 48, 48, 48, 49, 58, 112>>}}

\* C9: authenticate of a malformed header returns none and writes nothing.
C9_MalformedRejected ==
  [][(ret'.op = "authenticate" /\ ret'.auth \in MalformedHeaders) =>
       /\ ret'.user = Absent
       /\ UNCHANGED <<users, servers, invites, messages, flake, codes, calls, born>>]_vars

\* C9 witness: the header of a type other than Basic was turned down while
\* the account its payload names, with that password, is stored.
C9_Witness ==
  /\ ret.op = "authenticate"
  /\ ret.auth = BearerType \o <<Space>> \o Base64Encode(<<97, 35, 48, 48, 48, 49, 58, 112>>)
  /\ ret.user = Absent
  /\ \E k \in UsersTagged(users, <<97>>, <<48, 48, 48, 49>>) :
       Compare(<<112>>, users[k].password)

\* C10: for the header of name "a", a discriminator and a password, an
\* account authenticate returns is stored under that name and discriminator
\* and the header's password verifies against its hash; with no account of
\* that name and discriminator, or a password that does not verify,
\* authenticate returns none.
C10_AuthenticateSound ==
  [][ret'.op = "authenticate" =>
       \A d \in Discriminators, p \in HeaderPasswords :
         ret'.auth = BasicHeader(Tag(<<97>>, d), p) =>
           LET found == UsersTagged(users, <<97>>, d) IN
             /\ ret'.user # Absent =>
                  /\ ret'.user.id \in found
                  /\ users[ret'.user.id] = ret'.user
                  /\ Compare(p, ret'.user.password)
             /\ (\A k \in found : ~Compare(p, users[k].password)) =>
                  ret'.user = Absent]_vars

(***************************************************************************)
(* Claims about the server registry (specification Spec).                  *)
(***************************************************************************)
\* how often x is in a list
Count(list, x) == Cardinality({i \in 1..Len(list) : list[i] = x})

\* C2: every stored server's owner is a member of it: an account with the
\* owner's id exists and its membership list holds the server's id.
C2_OwnerIsMember ==
  \A s \in Keys(servers) :
    /\ servers[s].owner \in Keys(users)
    /\ Includes(users[servers[s].owner].servers, s)

\* C4: a deleteServer(id) run to completion leaves no server record with the
\* id, no invite of it and no membership entry for it, and leaves the other
\* servers, the invites of other servers, the membership entries for other
\* ids and everything else of the accounts as they were.
C4_DeleteServerCascade ==
  [][ret'.op = "deleteServer" =>
       LET id == ret'.id IN
         /\ servers'[id] = Absent
         /\ \A c \in Keys(invites') : invites'[c].serverId # id
         /\ \A k \in Keys(users') : ~Includes(users'[k].servers, id)
         /\ \A t \in ServerIds \ {id} : servers'[t] = servers[t]
         /\ \A c \in InviteCodes :
              invites'[c] = IF invites[c] # Absent /\ invites[c].serverId = id
                            THEN Absent ELSE invites[c]
         /\ Keys(users') = Keys(users)
         /\ \A k \in Keys(users) :
              /\ \A t \in ServerIds \ {id} :
                   Count(users'[k].servers, t) = Count(users[k].servers, t)
              /\ [users'[k] EXCEPT !.servers = <<>>] = [users[k] EXCEPT !.servers = <<>>]
         /\ messages' = messages]_vars

\* C4 witness: a deleteServer that deleted an invite and stripped two
\* accounts, while another server keeps its member.
C4_Witness ==
  /\ ret.op = "deleteServer"
  /\ ret.deleted >= 1
  /\ ret.replaced >= 2
  /\ \E t \in Keys(servers) : MemberIds(users, t) # {}

\* C5: an addMemberToServer that follows an addMemberToServer with the same
\* arguments changes no membership list, and the id is in no list twice.
C5_JoinIdempotent ==
  [][(/\ ret.op = "addMemberToServer"
      /\ ret'.op = "addMemberToServer"
      /\ ret'.userId = ret.userId
      /\ ret'.id = ret.id) =>
       /\ users' = users
       /\ \A k \in Keys(users') : Count(users'[k].servers, ret.id) <= 1]_vars

\* C5 witness: a join that found a user who is not the owner already a
\* member of the server, as a repeated join does.
C5_Witness ==
  /\ ret.op = "addMemberToServer"
  /\ ret.skipped
  /\ ret.userId \in Keys(users)
  /\ ret.id \in Keys(servers)
  /\ servers[ret.id].owner # ret.userId
  /\ Includes(users[ret.userId].servers, ret.id)

\* C6: addMemberToServer(userId, id) changes nothing when the user or the
\* server is missing or the user is a member already; otherwise it appends
\* the id to that user's list and changes nothing else.
C6_JoinFrame ==
  [][ret'.op = "addMemberToServer" =>
       LET u == ret'.userId
           id == ret'.id
       IN /\ servers' = servers
          /\ invites' = invites
          /\ messages' = messages
          /\ \A k \in AccountIds \ {u} : users'[k] = users[k]
          /\ IF users[u] = Absent \/ servers[id] = Absent
             THEN users' = users
             ELSE IF Includes(users[u].servers, id)
             THEN users' = users
             ELSE users'[u] = [users[u] EXCEPT !.servers = Append(@, id)]]_vars

\* C6 witness: a join that wrote, with another account in a server and an
\* invite and a message stored.
C6_Witness ==
  /\ ret.op = "addMemberToServer"
  /\ ~ret.skipped
  /\ \E k \in Keys(users) \ {ret.userId} : users[k].servers # <<>>
  /\ Keys(invites) # {}
  /\ Keys(messages) # {}

(***************************************************************************)
(* Claims about createServer with calls in flight together (SpecRace).     *)
(***************************************************************************)
\* C3: a createServer called after earlier calls that were in flight
\* together, and itself run with no other call in flight, returns a server
\* whose only member is the owner, and the server's id is in the owner's
\* membership list.
C3_CreateReturnsOwnerOnly ==
  (ret.op = "createServer" /\ ret.solo) =>
    /\ ret.server # Absent
    /\ ret.owner \in Keys(users)
    /\ ret.server.members = {Member(users[ret.owner])}
    /\ Includes(users[ret.owner].servers, ret.id)

(***************************************************************************)
(* Claims about the account registry with calls in flight together.        *)
(***************************************************************************)
\* every discriminator is taken by an account of the username
Exhausted(username) == RollDiscriminator(users, username) = {}

\* C11: a createUser that is in rollDiscriminator while every discriminator
\* of its username is taken comes to an end, unless a discriminator of the
\* username becomes free.
C11_ExhaustedRegisterEnds ==
  \A p \in Procs :
    (calls[p].op = "createUser" /\ calls[p].pc = "roll" /\ Exhausted(calls[p].username))
      ~> (calls[p].pc = "idle" \/ ~Exhausted(calls[p].username))

\* the pairs of stored accounts that share a username and a discriminator
SameTag(tbl) ==
  {pr \in Keys(tbl) \X Keys(tbl) :
     /\ pr[1] < pr[2]
     /\ tbl[pr[1]].username = tbl[pr[2]].username
     /\ tbl[pr[1]].discriminator = tbl[pr[2]].discriminator}

\* C18: two stored accounts come to share a username and a discriminator
\* only by the write of a createUser or an updateUser that ran while another
\* call was in flight (the state itself is the witness: it is reachable).
C18_SharedTagOnlyInterleaved ==
  [][~(SameTag(users') \subseteq SameTag(users)) =>
       /\ ret'.op \in {"createUser", "updateUser"}
       /\ ~ret'.solo
       /\ \E pr \in SameTag(users') \ SameTag(users) : ret'.id \in {pr[1], pr[2]}]_vars

\* C18 witness: two accounts are stored with the same username and the same
\* discriminator, the later of them written by a call that overlapped another.
C18_Witness ==
  /\ SameTag(users) # {}
  /\ ret.op \in {"createUser", "updateUser"}
  /\ ~ret.solo
  /\ \E pr \in SameTag(users) :
       /\ ret.id \in {pr[1], pr[2]}
       /\ ret.tag = Tag(users[pr[1]].username, users[pr[1]].discriminator)

(***************************************************************************)
(* Claims about server ids (specification SpecAlloc).                      *)
(***************************************************************************)
\* C13: the id createServer computes is 1 when its query finds no server and
\* the largest stored id plus 1 otherwise, above every stored id; with no
\* other createServer in flight since the call was made, it is still above
\* every stored id when the server is inserted.
C13_NextServerId ==
  [][\A p \in Procs :
       /\ (calls[p].pc = "max" /\ calls'[p].pc = "insert") =>
            IF Keys(servers) = {} THEN calls'[p].id = 1
            ELSE /\ calls'[p].id - 1 \in Keys(servers)
                 /\ \A k \in Keys(servers) : k < calls'[p].id
       /\ (calls[p].pc = "insert" /\ calls'[p].pc = "user" /\ calls[p].sole) =>
            \A k \in Keys(servers) : k < calls[p].id]_vars

\* C13 witness: a createServer has returned the second id, with a call that
\* is no createServer in flight beside it.
C13_Witness ==
  /\ ret.op = "createServer"
  /\ ret.sole
  /\ ~ret.solo
  /\ ret.id = 2
  /\ ret.server # Absent

(***************************************************************************)
(* Claims about invites (specification SpecInvites).                       *)
(***************************************************************************)
\* C16: generateInvite stores, under the code it returns, the serverId and
\* the inviter it was given, and a getInvite of that code right after it
\* returns them; getInvite returns the invite stored under its code and
\* none for a code that was never issued; a stored invite stays as it is
\* through every call that is not a deleteServer, getInvite and
\* addMemberToServer among them.
C16_InviteRoundTrip ==
  [][/\ ret'.op = "generateInvite" =>
          /\ invites[ret'.code] = Absent
          /\ invites'[ret'.code] = [id |-> ret'.code, serverId |-> ret'.serverId,
                                    inviter |-> ret'.inviter]
     /\ (ret.op = "generateInvite" /\ ret'.op = "getInvite" /\ ret'.code = ret.code) =>
          /\ ret'.invite # Absent
          /\ ret'.invite.serverId = ret.serverId
          /\ ret'.invite.inviter = ret.inviter
     /\ ret'.op = "getInvite" =>
          /\ ret'.code \in Keys(invites) => ret'.invite = invites[ret'.code]
          /\ ret'.code > codes => ret'.invite = Absent
     /\ ret'.op # "deleteServer" =>
          \A c \in Keys(invites) : invites'[c] = invites[c]]_vars

\* C16 witness: a getInvite has returned an invite of a server that the
\* second account joined and that the other account had made.
C16_Witness ==
  /\ ret.op = "getInvite"
  /\ ret.invite # Absent
  /\ ret.invite.inviter # ret.invite.serverId
  /\ ret.invite.serverId \in Keys(servers)
  /\ users[2] # Absent
  /\ Includes(users[2].servers, ret.invite.serverId)

(***************************************************************************)
(* Claims about createServer and deleteServer calls in flight together     *)
(* (specification SpecAlloc).                                              *)
(***************************************************************************)
\* C19: a createServer returns a server owned by another account than the
\* one it was called for only when another createServer was in flight with
\* it: the two have read the same largest id (the state in which both
\* owners list the id and both calls return it is the witness).
C19_SharedIdOnlyInterleaved ==
  (ret.op = "createServer" /\ ret.server # Absent /\ ret.server.owner # ret.owner)
    => ~ret.sole

\* C19 witness: one createServer has returned the server with an id, the
\* other is at its return with the same id, the owners differ, both have
\* the id in their lists and one server is stored under it.
C19_Witness ==
  /\ ret.op = "createServer"
  /\ ret.server # Absent
  /\ ret.server.id = ret.id
  /\ \E q \in Procs :
       /\ calls[q].op = "createServer"
       /\ calls[q].pc = "get"
       /\ calls[q].id = ret.id
       /\ calls[q].owner # ret.owner
       /\ GetServer(servers, users, calls[q].id) # Absent
       /\ Includes(users[calls[q].owner].servers, ret.id)
       /\ Includes(users[ret.owner].servers, ret.id)

\* the deleteServer calls that have run their first statement and not yet
\* their last
Deleting == {p \in Procs : calls[p].op = "deleteServer" /\ calls[p].pc \in {"invites", "strip"}}

\* C20: in every intermediate state of a deleteServer that has deleted a
\* server record, after its first statement and before its last, no server
\* record is stored under the id, so what it removes next belongs to a
\* missing server.
C20_RecordAbsentDuringDeletion ==
  \A p \in Deleting : calls[p].found => servers[calls[p].id] = Absent

(***************************************************************************)
(* Claims about memberships under calls in flight together                 *)
(* (specification SpecRace).                                               *)
(***************************************************************************)
\* the server ids in the membership lists of the stored accounts
ListedIds(utbl) ==
  UNION {{utbl[k].servers[i] : i \in 1..Len(utbl[k].servers)} : k \in Keys(utbl)}

\* C22: once every call that was started has returned, every server id in
\* the membership list of an account is the id of a stored server.
C22_ListedServersExist ==
  (\A p \in Procs : calls[p].pc = "idle")
    => \A id \in ListedIds(users) : servers[id] # Absent

====
